---- MODULE Spec2Model ----
(***************************************************************************)
(* Model of holoviews/ipython/parser.py: the magic line parsers Parser,    *)
(* OptsSpec and CompositorSpec.                                            *)
(*                                                                         *)
(* A line is a sequence of atoms.  An atom is a single character           *)
(* ("k", "=", "1", ",", "(", ")", "[", "]", "{", "}", " ", "*") or a word  *)
(* of ordinary characters that no step of the parser splits ("Image",      *)
(* "rgb", "data", "+mapwise") or one of the long openers "plot(",          *)
(* "style(", "norm(".  A string (a token, a keyword fragment) is a         *)
(* sequence of atoms as well, so that the first and last character, the    *)
(* membership of '=' and concatenation are what they are in the code.      *)
(***************************************************************************)
EXTENDS Integers, Sequences, FiniteSets, TLC

VARIABLES definitions, operations, compositor_ops, call

vars == <<definitions, operations, compositor_ops, call>>

----------------------------------------------------------------------------
(* Outcome of a call: a returned value or a raised exception.              *)

Return(v) == [kind |-> "return", exc |-> "", msg |-> "", arg |-> <<>>, val |-> v]

Raise(e, m, a) == [kind |-> "raise", exc |-> e, msg |-> m, arg |-> a, val |-> <<>>]

NoRet == [kind |-> "pending", exc |-> "", msg |-> "", arg |-> <<>>, val |-> <<>>]

None == <<>>

----------------------------------------------------------------------------
(* Strings and parse results.                                              *)

RECURSIVE Join(_)
Join(strs) == IF strs = <<>> THEN <<>> ELSE Head(strs) \o Join(Tail(strs))

RECURSIVE JoinWith(_, _)
JoinWith(sep, strs) ==
    IF strs = <<>> THEN <<>>
    ELSE IF Len(strs) = 1 THEN Head(strs)
    ELSE Head(strs) \o sep \o JoinWith(sep, Tail(strs))

White == {" "}

RECURSIVE LStrip(_)
LStrip(s) == IF s # <<>> /\ Head(s) \in White THEN LStrip(Tail(s)) ELSE s

RECURSIVE RStrip(_)
RStrip(s) ==
    IF s # <<>> /\ s[Len(s)] \in White THEN RStrip(SubSeq(s, 1, Len(s) - 1)) ELSE s

Strip(s) == LStrip(RStrip(s))

(* A child of a ParseResults list: a string token or a nested list.        *)
Tok(s) == [isList |-> FALSE, str |-> s, items |-> <<>>]

Lst(xs) == [isList |-> TRUE, str |-> <<>>, items |-> xs]

----------------------------------------------------------------------------
(* Parser._strip_commas and Parser.collect_tokens.                         *)

_strip_commas(kw) ==
    LET kw1 == IF kw[Len(kw)] = "," THEN SubSeq(kw, 1, Len(kw) - 1) ELSE kw
    IN  IF kw1[1] = "," THEN Tail(kw1) ELSE kw1

Inner(mode, s) ==
    IF mode = "parens" THEN <<"(">> \o s \o <<")">> ELSE <<"[">> \o s \o <<"]">>

(* The loop of collect_tokens from child i on, tokens being the list built *)
(* so far.  tokens[-1] on an empty list raises IndexError, ''.join of a    *)
(* list that holds a list raises TypeError.                                *)
RECURSIVE collect_loop(_, _, _, _)
collect_loop(children, mode, i, tokens) ==
    IF i > Len(children) THEN Return(tokens)
    ELSE LET token == children[i] IN
         IF token.isList
         THEN IF tokens = <<>>
              THEN Raise("IndexError", "list index out of range", <<>>)
              ELSE IF \E j \in 1..Len(token.items) : token.items[j].isList
              THEN Raise("TypeError", "sequence item: expected str instance", <<>>)
              ELSE LET joined == Join([j \in 1..Len(token.items) |-> token.items[j].str])
                       last   == tokens[Len(tokens)] \o Inner(mode, joined)
                   IN  collect_loop(children, mode, i + 1,
                                    [tokens EXCEPT ![Len(tokens)] = last])
         ELSE IF Strip(token.str) = <<",">>
              THEN collect_loop(children, mode, i + 1, tokens)
              ELSE collect_loop(children, mode, i + 1,
                                Append(tokens, _strip_commas(token.str)))

collect_tokens(parseresult, mode) == collect_loop(parseresult, mode, 1, <<>>)

----------------------------------------------------------------------------
(* Literal evaluation: eval('dict(%s)' % keyword, cls.namespace) with the  *)
(* empty namespace of Parser.  The evaluator covers the expressions that   *)
(* the atoms below can spell: decimal integers, parenthesised expressions, *)
(* tuple and list displays, subscriptions and calls.  A name in a value is *)
(* a NameError (the namespace is empty), a call of an integer, tuple or    *)
(* list is a TypeError, a positional argument of dict() that is not a      *)
(* mapping or an iterable of pairs is a TypeError; every one of them is    *)
(* an evaluation failure.                                                  *)

Digits == {"1", "2"}

NameChars == {"k"}

DigitVal(d) == IF d = "1" THEN 1 ELSE 2

IntV(n) == [ty |-> "int", n |-> n, elems |-> <<>>]

TupleV(es) == [ty |-> "tuple", n |-> 0, elems |-> es]

ListV(es) == [ty |-> "list", n |-> 0, elems |-> es]

EvalFail == [ok |-> FALSE, val |-> IntV(0), next |-> 0]

EvalOk(v, n) == [ok |-> TRUE, val |-> v, next |-> n]

At(s, i) == IF i >= 1 /\ i <= Len(s) THEN s[i] ELSE "<end>"

(* The integer literal that starts at i, acc being the value read so far.  *)
RECURSIVE EvalNumber(_, _, _)
EvalNumber(s, i, acc) ==
    IF At(s, i) \in Digits THEN EvalNumber(s, i + 1, 10 * acc + DigitVal(s[i]))
    ELSE EvalOk(IntV(acc), i)

RECURSIVE EvalExpr(_, _), EvalItems(_, _, _, _, _), EvalTrailers(_, _)

(* Expressions separated by commas up to the closer; a trailing comma is   *)
(* allowed after at least one expression.                                  *)
EvalItems(s, i, closer, acc, sawComma) ==
    IF At(s, i) = closer
    THEN [ok |-> TRUE, elems |-> acc, comma |-> sawComma, next |-> i + 1]
    ELSE LET r == EvalExpr(s, i) IN
         IF ~r.ok THEN [ok |-> FALSE, elems |-> <<>>, comma |-> FALSE, next |-> 0]
         ELSE IF At(s, r.next) = ","
              THEN EvalItems(s, r.next + 1, closer, Append(acc, r.val), TRUE)
         ELSE IF At(s, r.next) = closer
              THEN [ok |-> TRUE, elems |-> Append(acc, r.val),
                    comma |-> sawComma, next |-> r.next + 1]
         ELSE [ok |-> FALSE, elems |-> <<>>, comma |-> FALSE, next |-> 0]

EvalTrailers(s, r) ==
    IF ~r.ok THEN r
    ELSE IF At(s, r.next) = "(" THEN EvalFail
    ELSE IF At(s, r.next) = "["
         THEN LET idx == EvalExpr(s, r.next + 1) IN
              IF /\ idx.ok
                 /\ At(s, idx.next) = "]"
                 /\ idx.val.ty = "int"
                 /\ r.val.ty \in {"tuple", "list"}
                 /\ idx.val.n < Len(r.val.elems)
              THEN EvalTrailers(s, EvalOk(r.val.elems[idx.val.n + 1], idx.next + 1))
              ELSE EvalFail
    ELSE r

EvalExpr(s, i) ==
    IF At(s, i) \in Digits THEN EvalTrailers(s, EvalNumber(s, i, 0))
    ELSE IF At(s, i) = "("
         THEN LET r == EvalItems(s, i + 1, ")", <<>>, FALSE) IN
              IF ~r.ok THEN EvalFail
              ELSE IF Len(r.elems) = 1 /\ ~r.comma
                   THEN EvalTrailers(s, EvalOk(r.elems[1], r.next))
                   ELSE EvalTrailers(s, EvalOk(TupleV(r.elems), r.next))
    ELSE IF At(s, i) = "["
         THEN LET r == EvalItems(s, i + 1, "]", <<>>, FALSE) IN
              IF ~r.ok THEN EvalFail
              ELSE EvalTrailers(s, EvalOk(ListV(r.elems), r.next))
    ELSE EvalFail

(* The end of the identifier that starts at i.                             *)
RECURSIVE EvalNameEnd(_, _)
EvalNameEnd(s, i) ==
    IF At(s, i) \in NameChars \cup Digits THEN EvalNameEnd(s, i + 1) ELSE i

EmptyDict == [k \in {} |-> IntV(0)]

Update(d, e) ==
    [k \in DOMAIN d \cup DOMAIN e |-> IF k \in DOMAIN e THEN e[k] ELSE d[k]]

(* The argument list of dict(...): keyword arguments separated by commas,  *)
(* a trailing comma allowed, a repeated keyword is a SyntaxError.          *)
RECURSIVE EvalArgs(_, _, _)
EvalArgs(s, i, acc) ==
    IF i > Len(s) THEN [ok |-> TRUE, val |-> acc]
    ELSE IF At(s, i) \notin NameChars THEN [ok |-> FALSE, val |-> EmptyDict]
    ELSE LET e   == EvalNameEnd(s, i)
             key == SubSeq(s, i, e - 1)
             r   == EvalExpr(s, e + 1)
         IN  IF At(s, e) # "=" \/ ~r.ok \/ key \in DOMAIN acc
             THEN [ok |-> FALSE, val |-> EmptyDict]
             ELSE LET acc1 == Update(acc, [k \in {key} |-> r.val]) IN
                  IF r.next > Len(s) THEN [ok |-> TRUE, val |-> acc1]
                  ELSE IF At(s, r.next) = "," THEN EvalArgs(s, r.next + 1, acc1)
                  ELSE [ok |-> FALSE, val |-> EmptyDict]

Eval(keyword) == EvalArgs(keyword, 1, EmptyDict)

----------------------------------------------------------------------------
(* Parser.todict.                                                          *)

HasEq(el) == \E i \in 1..Len(el) : el[i] = "="

(* itertools.groupby(tokens, lambda el: '=' in el): the maximal runs of    *)
(* consecutive tokens with the same key.                                   *)
RECURSIVE RunLen(_, _, _)
RunLen(tokens, v, n) ==
    IF n < Len(tokens) /\ HasEq(tokens[n + 1]) = v THEN RunLen(tokens, v, n + 1) ELSE n

RECURSIVE groupby(_)
groupby(tokens) ==
    IF tokens = <<>> THEN <<>>
    ELSE LET v == HasEq(Head(tokens))
             n == RunLen(tokens, v, 1)
         IN  <<[val |-> v, items |-> SubSeq(tokens, 1, n)]>>
             \o groupby(SubSeq(tokens, n + 1, Len(tokens)))

(* The first loop of todict: grouped[-1] on an empty list is IndexError.   *)
RECURSIVE group_loop(_, _, _)
group_loop(runs, i, grouped) ==
    IF i > Len(runs) THEN Return(grouped)
    ELSE IF runs[i].val
         THEN group_loop(runs, i + 1, grouped \o runs[i].items)
         ELSE IF grouped = <<>>
              THEN Raise("IndexError", "list index out of range", <<>>)
              ELSE group_loop(runs, i + 1,
                     [grouped EXCEPT ![Len(grouped)] = @ \o Join(runs[i].items)])

(* The second loop of todict: any failure of eval is a SyntaxError that    *)
(* names the keyword.                                                      *)
RECURSIVE eval_loop(_, _, _), eval_keyword(_, _, _, _)
eval_loop(grouped, i, kwargs) ==
    IF i > Len(grouped) THEN Return(kwargs)
    ELSE eval_keyword(grouped, i, kwargs, Eval(grouped[i]))

(* Lines 73-74 for the keyword grouped[i], r being the outcome of eval.    *)
eval_keyword(grouped, i, kwargs, r) ==
    IF ~r.ok THEN Raise("SyntaxError", "Could not evaluate keyword", grouped[i])
    ELSE eval_loop(grouped, i + 1, Update(kwargs, r.val))

(* Lines 72-75, grouped being the outcome of the first loop.               *)
todict_eval(grouped) ==
    IF grouped.kind = "raise" THEN grouped ELSE eval_loop(grouped.val, 1, EmptyDict)

(* Lines 64-75, tokens being the outcome of collect_tokens.                *)
todict_group(tokens) ==
    IF tokens.kind = "raise" THEN tokens
    ELSE todict_eval(group_loop(groupby(tokens.val), 1, <<>>))

todict(parseresult, mode) == todict_group(collect_tokens(parseresult, mode))

----------------------------------------------------------------------------
(* OptsSpec.process_normalization.  A parse group holds, for each of its   *)
(* named results, <<>> when the block is absent and <<children>> when it   *)
(* is present; opts is parse_group['norm_options'][0].asList().            *)

Some(x) == <<x>>

options == << <<"+mapwise">>, <<"-mapwise">>, <<"+groupwise">>, <<"-groupwise">> >>

excluded == << << <<"+mapwise">>, <<"-mapwise">> >>, << <<"+groupwise">>, <<"-groupwise">> >> >>

(* opts.count(x) and x in opts: a nested list equals no string.            *)
Count(opts, x) == Cardinality({i \in 1..Len(opts) : ~opts[i].isList /\ opts[i].str = x})

In(x, opts) == Count(opts, x) > 0

IsOption(opt) == ~opt.isList /\ \E i \in 1..Len(options) : options[i] = opt.str

endswith_mapwise(s) == s \in {<<"+mapwise">>, <<"-mapwise">>}

endswith_groupwise(s) == s \in {<<"+groupwise">>, <<"-groupwise">>}

(* The three checks of lines 171-185 in the wrong order: the exclusive     *)
(* pairs before the repeated flags and the unknown tokens.                 *)
normalization_checks_reordered(opts) ==
    IF \E p \in 1..Len(excluded) : In(excluded[p][1], opts) /\ In(excluded[p][2], opts)
    THEN LET p == CHOOSE q \in 1..Len(excluded) :
                    /\ In(excluded[q][1], opts) /\ In(excluded[q][2], opts)
                    /\ \A r \in 1..(q - 1) :
                          ~(In(excluded[r][1], opts) /\ In(excluded[r][2], opts))
         IN  Raise("SyntaxError", "Normalization specification cannot contain both",
                   excluded[p][1] \o excluded[p][2])
    ELSE IF \E n \in 1..Len(options) : Count(opts, options[n]) > 1
    THEN LET n == CHOOSE m \in 1..Len(options) :
                    /\ Count(opts, options[m]) > 1
                    /\ \A l \in 1..(m - 1) : Count(opts, options[l]) <= 1
         IN  Raise("SyntaxError",
                   "Normalization specification must not contain repeated", options[n])
    ELSE IF ~(\A i \in 1..Len(opts) : IsOption(opts[i]))
    THEN Raise("SyntaxError", "Normalization option not one of", <<>>)
    ELSE Return(None)

(* Lines 171-185: the first repeated flag in the order of options, then    *)
(* any unknown token, then the first exclusive pair that is fully present. *)
normalization_checks(opts) ==
    IF \E n \in 1..Len(options) : Count(opts, options[n]) > 1
    THEN LET n == CHOOSE m \in 1..Len(options) :
                    /\ Count(opts, options[m]) > 1
                    /\ \A l \in 1..(m - 1) : Count(opts, options[l]) <= 1
         IN  Raise("SyntaxError",
                   "Normalization specification must not contain repeated", options[n])
    ELSE IF ~(\A i \in 1..Len(opts) : IsOption(opts[i]))
    THEN Raise("SyntaxError", "Normalization option not one of", <<>>)
    ELSE IF \E p \in 1..Len(excluded) : In(excluded[p][1], opts) /\ In(excluded[p][2], opts)
    THEN LET p == CHOOSE q \in 1..Len(excluded) :
                    /\ In(excluded[q][1], opts) /\ In(excluded[q][2], opts)
                    /\ \A r \in 1..(q - 1) :
                          ~(In(excluded[r][1], opts) /\ In(excluded[r][2], opts))
         IN  Raise("SyntaxError", "Normalization specification cannot contain both",
                   excluded[p][1] \o excluded[p][2])
    ELSE Return(None)

(* The reduction without the two single-flag branches of lines 188-193.    *)
normalization_settings_nodefault(opts) ==
    [groupwise |-> In(<<"+groupwise">>, opts), mapwise |-> In(<<"+mapwise">>, opts)]

(* Lines 187-199: the reduction of a validated list to the two booleans.   *)
normalization_settings(opts) ==
    IF Len(opts) = 1 /\ endswith_mapwise(opts[1].str)
    THEN [groupwise |-> TRUE, mapwise |-> In(<<"+mapwise">>, opts)]
    ELSE IF Len(opts) = 1 /\ endswith_groupwise(opts[1].str)
    THEN [groupwise |-> In(<<"+groupwise">>, opts), mapwise |-> TRUE]
    ELSE [groupwise |-> In(<<"+groupwise">>, opts), mapwise |-> In(<<"+mapwise">>, opts)]

(* Lines 171-199 for a non-empty list, checked being the outcome of the    *)
(* three checks.                                                           *)
normalization_reduce(opts, checked) ==
    IF checked.kind = "raise" THEN checked
    ELSE Return(Some(normalization_settings(opts)))

(* Lines 169-199, opts being parse_group['norm_options'][0].asList().      *)
normalization_of(opts) ==
    IF opts = <<>> THEN Return(None)
    ELSE normalization_reduce(opts, normalization_checks(opts))

process_normalization(parse_group) ==
    IF parse_group.norm_options = <<>> THEN Return(None)
    ELSE normalization_of(parse_group.norm_options[1])

----------------------------------------------------------------------------
(* pyparsing on atoms.  Every expression skips leading whitespace; a match *)
(* is reported as [ok, ..., next] with next the index after the match.     *)

RECURSIVE SkipWhite(_, _)
SkipWhite(line, i) == IF At(line, i) \in White THEN SkipWhite(line, i + 1) ELSE i

(* The atoms spelled with the characters of `allowed` (line 22) only: all  *)
(* atoms but the square brackets and the blank.                            *)
allowed(atom) == atom \notin {"[", "]", " ", "<end>"}

(* The content of a nestedExpr: by default a maximal run of characters     *)
(* that are neither blank nor the start of the opener or of the closer;    *)
(* for plot_options_short a run of words of allowed characters.            *)
IsContent(atom, opener, closer, content) ==
    /\ atom \notin {opener, closer, "<end>"} \cup White
    /\ content = "allowed" => allowed(atom)

RECURSIVE ContentEnd(_, _, _, _, _)
ContentEnd(line, i, opener, closer, content) ==
    IF IsContent(At(line, i), opener, closer, content)
    THEN ContentEnd(line, i + 1, opener, closer, content)
    ELSE i

NoMatch == [ok |-> FALSE, items |-> <<>>, next |-> 0]

RECURSIVE nestedExpr(_, _, _, _, _), nestedItems(_, _, _, _, _, _)

(* pp.nestedExpr(opener, closer, content):                                 *)
(* Group(Suppress(opener) + ZeroOrMore(ret | content) + Suppress(closer)). *)
nestedExpr(line, i, opener, closer, content) ==
    LET j == SkipWhite(line, i) IN
    IF At(line, j) # opener THEN NoMatch
    ELSE nestedItems(line, j + 1, opener, closer, content, <<>>)

nestedItems(line, i, opener, closer, content, acc) ==
    LET j == SkipWhite(line, i) IN
    IF At(line, j) = opener
    THEN LET r == nestedExpr(line, j, opener, closer, content) IN
         IF r.ok
         THEN nestedItems(line, r.next, opener, closer, content, Append(acc, Lst(r.items)))
         ELSE NoMatch
    ELSE IF At(line, j) = closer THEN [ok |-> TRUE, items |-> acc, next |-> j + 1]
    ELSE IF IsContent(At(line, j), opener, closer, content)
    THEN LET e == ContentEnd(line, j, opener, closer, content) IN
         nestedItems(line, e, opener, closer, content,
                     Append(acc, Tok(SubSeq(line, j, e - 1))))
    ELSE NoMatch

----------------------------------------------------------------------------
(* The grammar of OptsSpec (lines 105-157).                                *)

MatchFirst(a, b) == IF a.ok THEN a ELSE b

plot_options_short(line, i) == nestedExpr(line, i, "[", "]", "allowed")

plot_options_long(line, i) == nestedExpr(line, i, "plot(", ")", "default")

plot_options(line, i) == MatchFirst(plot_options_short(line, i), plot_options_long(line, i))

style_options_short(line, i) == nestedExpr(line, i, "(", ")", "default")

style_options_long(line, i) == nestedExpr(line, i, "style(", ")", "default")

style_options(line, i) ==
    MatchFirst(style_options_short(line, i), style_options_long(line, i))

norm_options_short(line, i) == nestedExpr(line, i, "{", "}", "default")

norm_options_long(line, i) == nestedExpr(line, i, "norm(", ")", "default")

norm_options(line, i) == MatchFirst(norm_options_short(line, i), norm_options_long(line, i))

(* Combine(Word(ascii_uppercase, exact=1) + Word(alphanums+'._')): a word  *)
(* of at least two characters that starts with a capital letter.           *)
dotted_path(atom) == atom \in {"Image", "Curve"}

(* pathspec = dotted_path | compositor_ops, ops being the literals that    *)
(* the class body collected from Compositor.definitions (lines 142-143).   *)
pathspec(line, i, ops) ==
    LET j == SkipWhite(line, i) IN
    IF dotted_path(At(line, j)) \/ At(line, j) \in ops
    THEN [ok |-> TRUE, items |-> At(line, j), next |-> j + 1]
    ELSE [ok |-> FALSE, items |-> "", next |-> 0]

(* Optional(norm_options) & Optional(plot_options) & Optional(style_options): *)
(* each block at most once, in any order.                                  *)
RECURSIVE each_options(_, _, _), each_match(_, _, _, _, _, _)
each_options(line, i, group) ==
    each_match(line, i, group,
               norm_options(line, i), plot_options(line, i), style_options(line, i))

(* One round of the Each at i: n, pl and st are the matches of the three   *)
(* blocks there.                                                           *)
each_match(line, i, group, n, pl, st) ==
    IF group.norm_options = <<>> /\ n.ok
    THEN each_options(line, n.next, [group EXCEPT !.norm_options = Some(n.items)])
    ELSE IF group.plot_options = <<>> /\ pl.ok
    THEN each_options(line, pl.next, [group EXCEPT !.plot_options = Some(pl.items)])
    ELSE IF group.style_options = <<>> /\ st.ok
    THEN each_options(line, st.next, [group EXCEPT !.style_options = Some(st.items)])
    ELSE [ok |-> TRUE, items |-> group, next |-> i]

(* The blocks that follow the path-spec match p.                           *)
group_after(line, p) ==
    IF ~p.ok THEN NoMatch
    ELSE each_options(line, p.next,
                      [pathspec |-> p.items, norm_options |-> <<>>,
                       plot_options |-> <<>>, style_options |-> <<>>])

spec_group(line, i, ops) == group_after(line, pathspec(line, i, ops))

(* opts_spec = OneOrMore(spec_group): g is the match of a further group at *)
(* i, acc the groups matched so far.                                       *)
RECURSIVE more_spec_groups(_, _, _, _), next_spec_group(_, _, _, _, _)
more_spec_groups(line, i, ops, acc) ==
    next_spec_group(line, i, ops, acc, spec_group(line, i, ops))

next_spec_group(line, i, ops, acc, g) ==
    IF g.ok THEN more_spec_groups(line, g.next, ops, Append(acc, g.items))
    ELSE [ok |-> acc # <<>>, items |-> acc, next |-> IF acc # <<>> THEN i ELSE 0]

opts_spec(line, i, ops) == more_spec_groups(line, i, ops, <<>>)

----------------------------------------------------------------------------
(* The grammar of CompositorSpec (lines 255-272).                          *)

(* pp.Word(pp.alphas+pp.nums+'_'): the atoms that are such words.          *)
Word(atom) ==
    atom \in {"data", "display", "weird", "add", "sub", "A", "B", "C", "k", "1", "2"}

word(line, i) ==
    LET j == SkipWhite(line, i) IN
    IF Word(At(line, j)) THEN [ok |-> TRUE, items |-> At(line, j), next |-> j + 1]
    ELSE [ok |-> FALSE, items |-> "", next |-> 0]

overlay_spec(line, i) == nestedExpr(line, i, "(", ")", "default")

op_settings(line, i) == nestedExpr(line, i, "[", "]", "default")

(* Group(mode + op + overlay_spec + value + Optional(op_settings)).        *)
(* The group after its value v, t being the match of Optional(op_settings). *)
group_settings(m, o, s, v, t) ==
    [ok |-> TRUE,
     items |-> [mode |-> m.items, op |-> o.items, spec |-> s.items, value |-> v.items,
                op_settings |-> IF t.ok THEN Some(t.items) ELSE <<>>],
     next |-> IF t.ok THEN t.next ELSE v.next]

group_value(line, m, o, s, v) ==
    IF ~v.ok THEN NoMatch ELSE group_settings(m, o, s, v, op_settings(line, v.next))

group_overlay(line, m, o, s) ==
    IF ~s.ok THEN NoMatch ELSE group_value(line, m, o, s, word(line, s.next))

group_op(line, m, o) ==
    IF ~o.ok THEN NoMatch ELSE group_overlay(line, m, o, overlay_spec(line, o.next))

group_mode(line, m) ==
    IF ~m.ok THEN NoMatch ELSE group_op(line, m, word(line, m.next))

compositor_group(line, i) == group_mode(line, word(line, i))

(* compositor_spec = OneOrMore(Group(...)): g is the match of a further    *)
(* group at i, acc the groups matched so far.                              *)
RECURSIVE more_compositor_groups(_, _, _), next_compositor_group(_, _, _, _)
more_compositor_groups(line, i, acc) ==
    next_compositor_group(line, i, acc, compositor_group(line, i))

next_compositor_group(line, i, acc, g) ==
    IF g.ok THEN more_compositor_groups(line, g.next, Append(acc, g.items))
    ELSE [ok |-> acc # <<>>, items |-> acc, next |-> IF acc # <<>> THEN i ELSE 0]

compositor_spec(line, i) == more_compositor_groups(line, i, <<>>)

----------------------------------------------------------------------------
(* ParserElement.scanString and parseString for the two grammars.          *)

Grammar(name, line, i, ops) ==
    IF name = "opts_spec" THEN opts_spec(line, i, ops) ELSE compositor_spec(line, i)

(* scanString: every match in the line, as [s, e]; the scan resumes at the *)
(* end of a match and one character further after a failure.               *)
RECURSIVE scan_loop(_, _, _, _, _), scan_at(_, _, _, _, _, _), scan_match(_, _, _, _, _, _, _)
scan_loop(name, line, loc, ops, acc) ==
    IF loc > Len(line) THEN acc
    ELSE scan_at(name, line, loc, ops, acc, SkipWhite(line, loc))

scan_at(name, line, loc, ops, acc, preloc) ==
    scan_match(name, line, loc, ops, acc, preloc, Grammar(name, line, preloc, ops))

scan_match(name, line, loc, ops, acc, preloc, m) ==
    IF m.ok /\ m.next > loc
    THEN scan_loop(name, line, m.next, ops, Append(acc, [s |-> preloc, e |-> m.next]))
    ELSE scan_loop(name, line, preloc + 1, ops, acc)

scanString(name, line, ops) == scan_loop(name, line, 1, ops, <<>>)

(* parseString: one match at the start of the line, else ParseException.   *)
parseString(name, line, ops) == Grammar(name, line, 1, ops)

(* Lines 213-216: processed = line[:e], the text before the match         *)
(* included.                                                               *)
check_remainder(line, e) ==
    IF Strip(SubSeq(line, 1, e - 1)) # Strip(line)
    THEN Raise("SyntaxError", "Failed to parse remainder of string",
               SubSeq(line, e, Len(line)))
    ELSE Return(None)

(* Lines 210-216 and 282-288: exactly one match, and nothing but blanks    *)
(* after it.                                                               *)
check_parses(line, parses) ==
    IF Len(parses) # 1
    THEN Raise("SyntaxError", "Invalid specification syntax.", <<>>)
    ELSE check_remainder(line, parses[1].e)

check_whole_line(name, line, ops) == check_parses(line, scanString(name, line, ops))

----------------------------------------------------------------------------
(* OptsSpec.parse (lines 203-234).  An Options object is its mapping.      *)

(* The body of the loop for one group: its options record or the error.    *)
options_record(group, normalization, plot, style) ==
    IF normalization.kind = "raise" THEN normalization
    ELSE IF plot.kind = "raise" THEN plot
    ELSE IF style.kind = "raise" THEN style
    ELSE Return([norm  |-> normalization.val,
                 plot  |-> IF group.plot_options = <<>> THEN None ELSE Some(plot.val),
                 style |-> IF group.style_options = <<>> THEN None ELSE Some(style.val)])

group_options(group) ==
    options_record(group,
        process_normalization(group),
        IF group.plot_options = <<>> THEN Return(None)
        ELSE todict(group.plot_options[1], "brackets"),
        IF group.style_options = <<>> THEN Return(None)
        ELSE todict(group.style_options[1], "parens"))

(* parse[group['pathspec']] = options merging the record into the one the  *)
(* path already has instead of replacing it.                               *)
store_options_merged(parse, path, opts) ==
    IF path \in DOMAIN parse
    THEN [parse EXCEPT ![path] =
            [norm  |-> IF opts.norm = None THEN @.norm ELSE opts.norm,
             plot  |-> IF opts.plot = None THEN @.plot ELSE opts.plot,
             style |-> IF opts.style = None THEN @.style ELSE opts.style]]
    ELSE [q \in DOMAIN parse \cup {path} |-> IF q = path THEN opts ELSE parse[q]]

(* Line 233: parse[group['pathspec']] = options.                           *)
store_options(parse, path, opts) ==
    [q \in DOMAIN parse \cup {path} |-> IF q = path THEN opts ELSE parse[q]]

RECURSIVE opts_loop(_, _, _), opts_store(_, _, _, _)
opts_loop(groups, i, parse) ==
    IF i > Len(groups) THEN Return(parse)
    ELSE opts_store(groups, i, parse, group_options(groups[i]))

(* The end of the loop body for group i, opts being its options record or  *)
(* the error raised on the way.                                            *)
opts_store(groups, i, parse, opts) ==
    IF opts.kind = "raise" THEN opts
    ELSE opts_loop(groups, i + 1, store_options(parse, groups[i].pathspec, opts.val))

NoOptions == [q \in {} |-> [norm |-> None, plot |-> None, style |-> None]]

(* Lines 218-234, parsed being the match of parseString.                   *)
opts_groups(parsed) ==
    IF ~parsed.ok THEN Raise("ParseException", "Expected pathspec", <<>>)
    ELSE opts_loop(parsed.items, 1, NoOptions)

(* The call after the checks of lines 209-216, whose outcome is whole.     *)
opts_checked(line, ops, whole) ==
    IF whole.kind = "raise" THEN whole
    ELSE opts_groups(parseString("opts_spec", line, ops))

OptsSpec_parse(line, ops) ==
    opts_checked(line, ops, check_whole_line("opts_spec", line, ops))

----------------------------------------------------------------------------
(* CompositorSpec.parse (lines 275-309).  opmap is the set of the names of *)
(* Compositor.operations, read at line 290 of this call.                   *)

Compositor(spec, operation, value, mode, kwargs) ==
    [spec |-> spec, operation |-> operation, value |-> value, mode |-> mode,
     kwargs |-> kwargs]

(* The body of the loop for one group: its definition or the error.        *)
(* Lines 301-308, kwargs being {} or the outcome of todict (line 305).     *)
compositor_build(group, opmap, spec, kwargs) ==
    IF group.op \notin opmap
    THEN Raise("SyntaxError",
               "Operation not available for use with compositors.", <<group.op>>)
    ELSE IF kwargs.kind = "raise" THEN kwargs
    ELSE Return(Compositor(spec, group.op, group.value, group.mode, kwargs.val))

compositor_definition(group, opmap) ==
    IF group.mode \notin {"data", "display"}
    THEN Raise("SyntaxError", "Either data or display mode must be specified.", <<>>)
    ELSE IF group.op \notin opmap
    THEN Raise("KeyError", "", <<group.op>>)
    ELSE IF \E j \in 1..Len(group.spec) : group.spec[j].isList
    THEN Raise("TypeError", "sequence item: expected str instance", <<>>)
    ELSE compositor_build(group, opmap,
             JoinWith(<<" ">>, [j \in 1..Len(group.spec) |-> group.spec[j].str]),
             IF group.op_settings = <<>> THEN Return(EmptyDict)
             ELSE todict(group.op_settings[1], "brackets"))

RECURSIVE compositor_loop(_, _, _, _), compositor_append(_, _, _, _, _)
compositor_loop(groups, i, opmap, defs) ==
    IF i > Len(groups) THEN Return(defs)
    ELSE compositor_append(groups, i, opmap, defs, compositor_definition(groups[i], opmap))

(* Line 308 for group i, d being its definition or the error raised.       *)
compositor_append(groups, i, opmap, defs, d) ==
    IF d.kind = "raise" THEN d
    ELSE compositor_loop(groups, i + 1, opmap, Append(defs, d.val))

(* Lines 290-309, parsed being the match of parseString.                   *)
compositor_groups(parsed, opmap) ==
    IF ~parsed.ok THEN Raise("ParseException", "Expected W:(A-Za-z0-9_)", <<>>)
    ELSE compositor_loop(parsed.items, 1, opmap, <<>>)

(* The call after the checks of lines 281-288, whose outcome is whole.     *)
compositor_checked(line, opmap, whole) ==
    IF whole.kind = "raise" THEN whole
    ELSE compositor_groups(parseString("compositor_spec", line, {}), opmap)

CompositorSpec_parse(line, opmap) ==
    compositor_checked(line, opmap, check_whole_line("compositor_spec", line, {}))

----------------------------------------------------------------------------
(* A call of one of the functions: its name, its argument, the nesting     *)
(* style, the registry contents at the call, its outcome and the outcome   *)
(* of the call before it.                                                  *)

Call(fn, arg, mode, reg, ret) ==
    [fn |-> fn, arg |-> arg, mode |-> mode, registry |-> reg, ret |-> ret, prev |-> NoRet]

RECURSIVE SeqsUpTo(_, _)
SeqsUpTo(S, n) ==
    IF n = 0 THEN {<<>>}
    ELSE LET shorter == SeqsUpTo(S, n - 1)
         IN  shorter \cup {Append(q, x) : q \in {p \in shorter : Len(p) = n - 1}, x \in S}

----------------------------------------------------------------------------
(* Specification of the token collector and the keyword grouper: the      *)
(* parse result is any sequence of at most MaxChildren children.           *)

MaxChildren == 3

Children ==
    { Tok(<<"k", "=", "1">>),
      Tok(<<"1">>),
      Tok(<<",">>),
      Tok(<<",", "k", "=", "2", ",">>),
      Lst(<<Tok(<<"1", ",", "2">>)>>),
      Lst(<<>>),
      Lst(<<Lst(<<Tok(<<"1">>)>>), Tok(<<"2">>)>>) }

Modes == {"parens", "brackets"}

InitTok ==
    /\ definitions = {}
    /\ operations = {}
    /\ compositor_ops = {}
    /\ call \in {Call("", t, m, {}, NoRet) : t \in SeqsUpTo(Children, MaxChildren), m \in Modes}

CollectTokens ==
    /\ call.fn = ""
    /\ call' = [call EXCEPT !.fn = "collect_tokens",
                            !.ret = collect_tokens(call.arg, call.mode)]
    /\ UNCHANGED <<definitions, operations, compositor_ops>>

ToDict ==
    /\ call.fn = ""
    /\ call' = [call EXCEPT !.fn = "todict", !.ret = todict(call.arg, call.mode)]
    /\ UNCHANGED <<definitions, operations, compositor_ops>>

NextTok == CollectTokens \/ ToDict

SpecTok == InitTok /\ [][NextTok]_vars

(* C10: collect_tokens raises no error, whatever the children are.         *)
C10_CollectTokensNeverRaises ==
    call.fn = "collect_tokens" => call.ret.kind = "return"

(* The flat token sequence of the call's argument starts with a token      *)
(* that contains no '='.                                                   *)
StartsWithContinuation ==
    LET tokens == collect_tokens(call.arg, call.mode) IN
    /\ tokens.kind = "return"
    /\ tokens.val # <<>>
    /\ ~HasEq(tokens.val[1])

(* C9: todict fails with a syntax error when the token sequence starts     *)
(* with a run of tokens without '='.                                       *)
C9_LeadingContinuationIsSyntaxError ==
    (call.fn = "todict" /\ StartsWithContinuation)
        => (call.ret.kind = "raise" /\ call.ret.exc = "SyntaxError")

----------------------------------------------------------------------------
(* Specification of the normalization resolver: the norm block is absent   *)
(* or holds any sequence of at most MaxOpts children.                      *)

MaxOpts == 3

NormChildren ==
    { Tok(<<"+mapwise">>), Tok(<<"-mapwise">>), Tok(<<"+groupwise">>),
      Tok(<<"-groupwise">>), Tok(<<"bogus">>), Lst(<<>>) }

NormGroup(norm) ==
    [pathspec |-> "Image", norm_options |-> norm, plot_options |-> <<>>,
     style_options |-> <<>>]

InitNorm ==
    /\ definitions = {}
    /\ operations = {}
    /\ compositor_ops = {}
    /\ call \in {Call("", NormGroup(n), "", {}, NoRet) :
                   n \in {<<>>} \cup {Some(o) : o \in SeqsUpTo(NormChildren, MaxOpts)}}

ProcessNormalization ==
    /\ call.fn = ""
    /\ call' = [call EXCEPT !.fn = "process_normalization",
                            !.ret = process_normalization(call.arg)]
    /\ UNCHANGED <<definitions, operations, compositor_ops>>

NextNorm == ProcessNormalization

SpecNorm == InitNorm /\ [][NextNorm]_vars

(* The norm token list of the call, <<>> when the block is absent.         *)
NormOpts == IF call.arg.norm_options = <<>> THEN <<>> ELSE call.arg.norm_options[1]

HasFlag(f) == \E i \in 1..Len(NormOpts) : NormOpts[i] = Tok(<<f>>)

Flags == {"+mapwise", "-mapwise", "+groupwise", "-groupwise"}

Repeated ==
    \E f \in Flags : \E i, j \in 1..Len(NormOpts) :
        i # j /\ NormOpts[i] = Tok(<<f>>) /\ NormOpts[j] = Tok(<<f>>)

Unrecognised == \E i \in 1..Len(NormOpts) : \A f \in Flags : NormOpts[i] # Tok(<<f>>)

BothOfAPair ==
    \/ HasFlag("+mapwise") /\ HasFlag("-mapwise")
    \/ HasFlag("+groupwise") /\ HasFlag("-groupwise")

PassesValidation == NormOpts # <<>> /\ ~Repeated /\ ~Unrecognised /\ ~BothOfAPair

(* C4: a validated non-empty list reduces to mapwise = no '-mapwise' and   *)
(* groupwise = no '-groupwise'; an absent or empty block gives None.       *)
C4_NormalizationDefaults ==
    call.fn = "process_normalization" =>
        /\ NormOpts = <<>> => call.ret = Return(None)
        /\ PassesValidation =>
               call.ret = Return(Some([groupwise |-> ~HasFlag("-groupwise"),
                                       mapwise   |-> ~HasFlag("-mapwise")]))

C4_Witness ==
    /\ call.fn = "process_normalization"
    /\ NormOpts = <<Tok(<<"-groupwise">>)>>
    /\ call.ret = Return(Some([groupwise |-> FALSE, mapwise |-> TRUE]))

(* C5: the checks run in the order repeated flag, unrecognised token,      *)
(* exclusive pair; the first violated one is the syntax error raised, and  *)
(* settings are returned only when all three pass.                         *)
C5_ValidationOrder ==
    (call.fn = "process_normalization" /\ NormOpts # <<>>) =>
        /\ Repeated =>
             /\ call.ret.kind = "raise" /\ call.ret.exc = "SyntaxError"
             /\ call.ret.msg = "Normalization specification must not contain repeated"
        /\ (~Repeated /\ Unrecognised) =>
             /\ call.ret.kind = "raise" /\ call.ret.exc = "SyntaxError"
             /\ call.ret.msg = "Normalization option not one of"
        /\ (~Repeated /\ ~Unrecognised /\ BothOfAPair) =>
             /\ call.ret.kind = "raise" /\ call.ret.exc = "SyntaxError"
             /\ call.ret.msg = "Normalization specification cannot contain both"
        /\ call.ret.kind = "return" => PassesValidation

C5_Witness ==
    /\ call.fn = "process_normalization"
    /\ NormOpts = <<Tok(<<"+mapwise">>), Tok(<<"bogus">>), Tok(<<"-mapwise">>)>>
    /\ call.ret.msg = "Normalization option not one of"

----------------------------------------------------------------------------
(* Specification of OptsSpec.parse with the operation registry.  The class *)
(* body runs once, when the module is imported: compositor_ops is built    *)
(* from the definitions registered by then.  Later registrations add to    *)
(* Compositor.definitions only.  A line is at most MaxItems items          *)
(* separated by blanks.                                                    *)

MaxItems == 4

Values == {"rgb", "late"}

OptsItems ==
    { <<"Image">>, <<"rgb">>, <<"late">>,
      <<"(", "k", "=", "1", ")">>,
      <<"style(", "k", "=", "2", ")">>,
      <<"[", "k", "=", "1", "]">>,
      <<"{", "-mapwise", "}">> }

OptsLines == {JoinWith(<<" ">>, items) : items \in SeqsUpTo(OptsItems, MaxItems)}

InitOpts ==
    /\ definitions \in SUBSET Values
    /\ compositor_ops = definitions
    /\ operations = {}
    /\ call = Call("", <<>>, "", {}, NoRet)

Register(v) ==
    /\ v \notin definitions
    /\ definitions' = definitions \cup {v}
    /\ UNCHANGED <<operations, compositor_ops, call>>

OptsParse(line) ==
    /\ call.fn = ""
    /\ call' = Call("OptsSpec.parse", line, "", definitions,
                    OptsSpec_parse(line, compositor_ops))
    /\ UNCHANGED <<definitions, operations, compositor_ops>>

(* The caller takes the outcome of the call.                               *)
OptsDone ==
    /\ call.fn = "OptsSpec.parse"
    /\ call' = Call("", <<>>, "", {}, NoRet)
    /\ UNCHANGED <<definitions, operations, compositor_ops>>

NextOpts ==
    \/ \E v \in Values : Register(v)
    \/ \E line \in OptsLines : OptsParse(line)
    \/ OptsDone

SpecOpts == InitOpts /\ [][NextOpts]_vars

(* C2: a name that is in the registry when parse is called is accepted as  *)
(* a path-spec by that call.                                               *)
C2_RegisteredNameIsPathspec ==
    (/\ call.fn = "OptsSpec.parse"
     /\ Len(call.arg) = 1
     /\ call.arg[1] \in call.registry)
        => (call.ret.kind = "return" /\ call.arg[1] \in DOMAIN call.ret.val)

(* The line of the call is, up to blanks, one sequence of one or more      *)
(* groups, a path-spec being a dotted path or one of the names in ops.     *)
WholeLineIsGroups(ops) ==
    LET m == opts_spec(call.arg, 1, ops) IN
    m.ok /\ SkipWhite(call.arg, m.next) > Len(call.arg)

(* C3: parse returns a mapping only for a line that is one sequence of     *)
(* groups, and every other line fails with a syntax error.                 *)
C3_WholeLineOrSyntaxError ==
    call.fn = "OptsSpec.parse" =>
        /\ call.ret.kind = "return" => WholeLineIsGroups(compositor_ops)
        /\ ~WholeLineIsGroups(compositor_ops) =>
               (call.ret.kind = "raise" /\ call.ret.exc = "SyntaxError")

(* The groups of the line of the call.                                     *)
LineGroups == opts_spec(call.arg, 1, compositor_ops).items

LastGroupOf(path) ==
    LineGroups[CHOOSE i \in 1..Len(LineGroups) :
                 /\ LineGroups[i].pathspec = path
                 /\ \A j \in (i + 1)..Len(LineGroups) : LineGroups[j].pathspec # path]

(* C7: the mapping holds, for every path of the line, exactly the options  *)
(* record of the last group with that path.                                *)
C7_LastGroupWins ==
    (call.fn = "OptsSpec.parse" /\ call.ret.kind = "return") =>
        /\ DOMAIN call.ret.val = {LineGroups[i].pathspec : i \in 1..Len(LineGroups)}
        /\ \A path \in DOMAIN call.ret.val :
               call.ret.val[path] = group_options(LastGroupOf(path)).val

C7_Witness ==
    /\ call.fn = "OptsSpec.parse"
    /\ call.ret.kind = "return"
    /\ \E i, j \in 1..Len(LineGroups) :
          /\ i < j
          /\ LineGroups[i].pathspec = LineGroups[j].pathspec
          /\ LineGroups[i].plot_options # <<>>
          /\ LineGroups[j].plot_options = <<>>
          /\ LineGroups[j].style_options # <<>>
          /\ call.ret.val[LineGroups[j].pathspec].plot = None

----------------------------------------------------------------------------
(* Specification of the two surface forms of a block: the line is "Image"  *)
(* and one block whose content is any sequence of at most MaxContent       *)
(* atoms, parsed once in the short and once in the long form.              *)

MaxContent == 4

BlockAtoms(block) ==
    IF block = "style" THEN {"k", "=", "1", ",", "(", ")", " "}
    ELSE IF block = "plot" THEN {"k", "=", "1", "(", ")", "[", "]"}
    ELSE {"+mapwise", "-groupwise", " ", "{", "}", "(", ")"}

ShortForm(block, content) ==
    IF block = "style" THEN <<"Image", " ", "(">> \o content \o <<")">>
    ELSE IF block = "plot" THEN <<"Image", " ", "[">> \o content \o <<"]">>
    ELSE <<"Image", " ", "{">> \o content \o <<"}">>

LongForm(block, content) ==
    IF block = "style" THEN <<"Image", " ", "style(">> \o content \o <<")">>
    ELSE IF block = "plot" THEN <<"Image", " ", "plot(">> \o content \o <<")">>
    ELSE <<"Image", " ", "norm(">> \o content \o <<")">>

InitBlock ==
    /\ definitions = {}
    /\ operations = {}
    /\ compositor_ops = {}
    /\ call \in {Call("", [block |-> b, content |-> c], "", {}, NoRet) :
                   b \in {"style"}, c \in SeqsUpTo(BlockAtoms("style"), MaxContent)}
             \cup {Call("", [block |-> b, content |-> c], "", {}, NoRet) :
                   b \in {"plot"}, c \in SeqsUpTo(BlockAtoms("plot"), MaxContent)}
             \cup {Call("", [block |-> b, content |-> c], "", {}, NoRet) :
                   b \in {"norm"}, c \in SeqsUpTo(BlockAtoms("norm"), MaxContent)}

ParseShort ==
    /\ call.fn = ""
    /\ call' = [call EXCEPT
                  !.fn = "short",
                  !.ret = OptsSpec_parse(ShortForm(call.arg.block, call.arg.content),
                                         compositor_ops)]
    /\ UNCHANGED <<definitions, operations, compositor_ops>>

ParseLong ==
    /\ call.fn = "short"
    /\ call' = [call EXCEPT
                  !.fn = "long",
                  !.prev = call.ret,
                  !.ret = OptsSpec_parse(LongForm(call.arg.block, call.arg.content),
                                         compositor_ops)]
    /\ UNCHANGED <<definitions, operations, compositor_ops>>

NextBlock == ParseShort \/ ParseLong

SpecBlock == InitBlock /\ [][NextBlock]_vars

(* C6: the long form of a block gives the result of the short form of the *)
(* same content: the same keys with equal values.                          *)
C6_ShortAndLongFormAgree ==
    (call.fn = "long" /\ call.prev.kind = "return") =>
        (call.ret.kind = "return" /\ call.ret.val = call.prev.val)

----------------------------------------------------------------------------
(* Specification of CompositorSpec.parse with the operation registry: a    *)
(* line is at most MaxGroups items separated by blanks, an item being a    *)
(* compositor group or a stray closing bracket.                            *)

MaxGroups == 2

Operations == {"add", "sub"}

Overlays ==
    { <<"(", "A", " ", "*", " ", "B", ")">>,
      <<"(", "A", " ", "*", " ", "(", "B", ")", ")">> }

Settings == { <<>>, <<" ", "[", "k", "=", "1", "]">> }

CompositorItems ==
    {<<m, " ", o, " ">> \o ov \o <<" ", "C">> \o st :
        m \in {"data", "display", "weird"}, o \in Operations,
        ov \in Overlays, st \in Settings}
    \cup {<<"]">>}

CompositorLines ==
    {JoinWith(<<" ">>, items) : items \in SeqsUpTo(CompositorItems, MaxGroups)}

InitComp ==
    /\ definitions = {}
    /\ compositor_ops = {}
    /\ operations \in SUBSET Operations
    /\ call = Call("", <<>>, "", {}, NoRet)

RegisterOperation(o) ==
    /\ o \notin operations
    /\ operations' = operations \cup {o}
    /\ UNCHANGED <<definitions, compositor_ops, call>>

CompositorParse(line) ==
    /\ call.fn = ""
    /\ call' = Call("CompositorSpec.parse", line, "", operations,
                    CompositorSpec_parse(line, operations))
    /\ UNCHANGED <<definitions, operations, compositor_ops>>

(* The caller takes the outcome of the call.                               *)
CompositorDone ==
    /\ call.fn = "CompositorSpec.parse"
    /\ call' = Call("", <<>>, "", {}, NoRet)
    /\ UNCHANGED <<definitions, operations, compositor_ops>>

NextComp ==
    \/ \E o \in Operations : RegisterOperation(o)
    \/ \E line \in CompositorLines : CompositorParse(line)
    \/ CompositorDone

SpecComp == InitComp /\ [][NextComp]_vars

(* The line of the call is, up to blanks, one sequence of compositor       *)
(* groups.                                                                 *)
WellFormedCompositorLine ==
    LET m == compositor_spec(call.arg, 1) IN
    m.ok /\ SkipWhite(call.arg, m.next) > Len(call.arg)

CompositorGroups == compositor_spec(call.arg, 1).items

(* C1: a well-formed line with valid modes and an operation name that is   *)
(* not in the table fails with a syntax error that names that operation.   *)
C1_UnknownOperationIsSyntaxError ==
    (/\ call.fn = "CompositorSpec.parse"
     /\ WellFormedCompositorLine
     /\ \A i \in 1..Len(CompositorGroups) : CompositorGroups[i].mode \in {"data", "display"}
     /\ \E i \in 1..Len(CompositorGroups) : CompositorGroups[i].op \notin call.registry)
        => /\ call.ret.kind = "raise"
           /\ call.ret.exc = "SyntaxError"
           /\ \E i \in 1..Len(CompositorGroups) :
                 /\ CompositorGroups[i].op \notin call.registry
                 /\ call.ret.arg = <<CompositorGroups[i].op>>

(* C8: a well-formed line with a group whose mode is neither 'data' nor    *)
(* 'display' fails with a syntax error.                                    *)
C8_UnknownModeIsSyntaxError ==
    (/\ call.fn = "CompositorSpec.parse"
     /\ WellFormedCompositorLine
     /\ \E i \in 1..Len(CompositorGroups) :
           CompositorGroups[i].mode \notin {"data", "display"})
        => (call.ret.kind = "raise" /\ call.ret.exc = "SyntaxError")

====
